---- MODULE Spec2Model ----
(***************************************************************************)
(* Model of src/solar_model.py (calculate_daily_radiation) and of its      *)
(* caller src/compare_slopes.py (main).                                    *)
(*                                                                         *)
(* Python floats are modelled as records [k, v]:                           *)
(*   k = "fin"  a finite number, v its value in units of 1/SCALE           *)
(*   k = "nan"  the IEEE not-a-number                                      *)
(*   k = "inf"  an IEEE infinity, v = 1 or -1 its sign                     *)
(*   k = "exc"  no value: the evaluation raised an exception               *)
(*              (ValueError "math domain error", ZeroDivisionError)        *)
(* Arithmetic rounds to the nearest unit, symmetrically in the sign, as    *)
(* IEEE arithmetic rounds to the nearest representable number.             *)
(***************************************************************************)
EXTENDS Integers, Sequences, FiniteSets, TLC

\* fixed-point unit: one is SCALE units
SCALE == 10000

F(n) == [k |-> "fin", v |-> n]
NaN == [k |-> "nan", v |-> 0]
Inf(s) == [k |-> "inf", v |-> s]
Exc == [k |-> "exc", v |-> 0]

Float == [k : {"fin", "nan", "inf", "exc"}, v : Int]

IsFin(a) == a.k = "fin"
IsNaN(a) == a.k = "nan"
IsInf(a) == a.k = "inf"
IsExc(a) == a.k = "exc"

\* The arithmetic is written as functions, which are applied to values: an
\* operand is evaluated once, however often the definition uses it.

Abs(n) == IF n < 0 THEN -n ELSE n
Sgn(n) == IF n < 0 THEN -1 ELSE IF n > 0 THEN 1 ELSE 0

\* round(a * b / c) for c > 0, without forming a * b; the sign is handled
\* apart so that rounding is symmetric
MulDiv[a \in Int, b \in Int, c \in Int] ==
    Sgn(a) * Sgn(b) *
        ((Abs(a) \div c) * Abs(b) + (((Abs(a) % c) * Abs(b)) + (c \div 2)) \div c)

\* round(a * SCALE / b) for a >= 0, b > 0, one decimal digit at a time:
\* q the quotient so far, r the remainder
LongDiv[q \in Int, r \in Int, b \in Int, digits \in Int] ==
    IF digits = 0
    THEN IF 2 * r >= b THEN q + 1 ELSE q
    ELSE LongDiv[10 * q + ((10 * r) \div b), (10 * r) % b, b, digits - 1]

\* float negation
FNeg[a \in Float] == IF IsFin(a) \/ IsInf(a) THEN [k |-> a.k, v |-> -a.v] ELSE a

\* float addition a + b
FAdd[a \in Float, b \in Float] ==
    IF IsExc(a) \/ IsExc(b) THEN Exc
    ELSE IF IsNaN(a) \/ IsNaN(b) THEN NaN
    ELSE IF IsInf(a) /\ IsInf(b) THEN (IF a.v = b.v THEN a ELSE NaN)
    ELSE IF IsInf(a) THEN a
    ELSE IF IsInf(b) THEN b
    ELSE F(a.v + b.v)

\* float subtraction a - b
FSub[a \in Float, b \in Float] == FAdd[a, FNeg[b]]

\* float multiplication a * b
FMul[a \in Float, b \in Float] ==
    IF IsExc(a) \/ IsExc(b) THEN Exc
    ELSE IF IsNaN(a) \/ IsNaN(b) THEN NaN
    ELSE IF IsInf(a) \/ IsInf(b)
         THEN (IF a.v = 0 \/ b.v = 0 THEN NaN ELSE Inf(Sgn(a.v) * Sgn(b.v)))
    ELSE IF Abs(a.v) >= Abs(b.v) THEN F(MulDiv[a.v, b.v, SCALE])
    ELSE F(MulDiv[b.v, a.v, SCALE])

\* float division a / b; Python raises ZeroDivisionError on a zero divisor
FDiv[a \in Float, b \in Float] ==
    IF IsExc(a) \/ IsExc(b) THEN Exc
    ELSE IF IsFin(b) /\ b.v = 0 THEN Exc
    ELSE IF IsNaN(a) \/ IsNaN(b) THEN NaN
    ELSE IF IsInf(a) THEN (IF IsInf(b) THEN NaN ELSE Inf(a.v * Sgn(b.v)))
    ELSE IF IsInf(b) THEN F(0)
    ELSE F(Sgn(a.v) * Sgn(b.v) *
           LongDiv[Abs(a.v) \div Abs(b.v), Abs(a.v) % Abs(b.v), Abs(b.v), 4])

\* a <= b and a > b on floats: every comparison with a NaN is false
FLe[a \in Float, b \in Float] ==
    IF IsNaN(a) \/ IsNaN(b) THEN FALSE
    ELSE IF IsInf(a) THEN a.v < 0 \/ (IsInf(b) /\ b.v > 0)
    ELSE IF IsInf(b) THEN b.v > 0
    ELSE a.v <= b.v

FGt[a \in Float, b \in Float] ==
    IF IsNaN(a) \/ IsNaN(b) THEN FALSE
    ELSE IF IsInf(a) THEN a.v > 0 /\ ~(IsInf(b) /\ b.v > 0)
    ELSE IF IsInf(b) THEN b.v < 0
    ELSE a.v > b.v

\* math.pi in units, and 2 pi and pi / 2
PI == 31416
TWO_PI == 2 * PI
HALF_PI == PI \div 2

\* sin x = x (1 - x^2/6 (1 - x^2/20 (1 - x^2/42))) for 0 <= x <= pi/4
SinSeries[x \in Int] ==
    LET x2 == MulDiv[x, x, SCALE]
        t3 == SCALE - MulDiv[x2, SCALE, 42 * SCALE]
        t2 == SCALE - MulDiv[MulDiv[x2, t3, SCALE], SCALE, 20 * SCALE]
        t1 == SCALE - MulDiv[MulDiv[x2, t2, SCALE], SCALE, 6 * SCALE]
    IN  MulDiv[x, t1, SCALE]

\* cos x = 1 - x^2/2 (1 - x^2/12 (1 - x^2/30)) for 0 <= x <= pi/4
CosSeries[x \in Int] ==
    LET x2 == MulDiv[x, x, SCALE]
        t3 == SCALE - MulDiv[x2, SCALE, 30 * SCALE]
        t2 == SCALE - MulDiv[MulDiv[x2, t3, SCALE], SCALE, 12 * SCALE]
    IN  SCALE - MulDiv[MulDiv[x2, t2, SCALE], SCALE, 2 * SCALE]

\* sine and cosine of an angle of the first quadrant, 0 <= x <= pi/2
SinQ[x \in Int] == IF 2 * x <= HALF_PI THEN SinSeries[x] ELSE CosSeries[HALF_PI - x]
CosQ[x \in Int] == IF 2 * x <= HALF_PI THEN CosSeries[x] ELSE SinSeries[HALF_PI - x]

\* sine and cosine of an angle r reduced modulo 2 pi, 0 <= r < 2 pi
SinReduced[r \in Int] ==
    IF r <= HALF_PI THEN SinQ[r]
    ELSE IF r <= PI THEN SinQ[PI - r]
    ELSE IF r <= PI + HALF_PI THEN -SinQ[r - PI]
    ELSE -SinQ[TWO_PI - r]

CosReduced[r \in Int] ==
    IF r <= HALF_PI THEN CosQ[r]
    ELSE IF r <= PI THEN -CosQ[PI - r]
    ELSE IF r <= PI + HALF_PI THEN -CosQ[r - PI]
    ELSE CosQ[TWO_PI - r]

\* math.sin and math.cos: odd and even, NaN for NaN, ValueError for an infinity
Sin[a \in Float] ==
    IF IsExc(a) \/ IsInf(a) THEN Exc
    ELSE IF IsNaN(a) THEN NaN
    ELSE F(Sgn(a.v) * SinReduced[Abs(a.v) % TWO_PI])

Cos[a \in Float] ==
    IF IsExc(a) \/ IsInf(a) THEN Exc
    ELSE IF IsNaN(a) THEN NaN
    ELSE F(CosReduced[Abs(a.v) % TWO_PI])

\* the angle of [lo, hi], within [0, pi/2], whose sine is s (bisection)
AsinSearch[s \in Int, lo \in Int, hi \in Int] ==
    IF hi - lo <= 1
    THEN IF Abs(SinQ[hi] - s) < Abs(SinQ[lo] - s) THEN hi ELSE lo
    ELSE IF SinQ[(lo + hi) \div 2] <= s
         THEN AsinSearch[s, (lo + hi) \div 2, hi]
         ELSE AsinSearch[s, lo, (lo + hi) \div 2]

\* math.asin: ValueError outside [-1, 1]
Asin[a \in Float] ==
    IF IsExc(a) \/ IsInf(a) THEN Exc
    ELSE IF IsNaN(a) THEN NaN
    ELSE IF Abs(a.v) > SCALE THEN Exc
    ELSE F(Sgn(a.v) * AsinSearch[Abs(a.v), 0, HALF_PI])

\* math.radians: x * (pi / 180), with pi / 180 = 3927 / 225000
Radians[a \in Float] ==
    IF IsFin(a) THEN F(MulDiv[a.v, 3927, 225000])
    ELSE a

(***************************************************************************)
(* calculate_daily_radiation: the constants and the expressions            *)
(***************************************************************************)

\* I0 = 1367.0, the extraterrestrial solar constant (W/m2), in units
I0 == 13670000
\* tau = 0.7, the clear-sky transmittance, in units
TAU == 7000
\* 0.033, the Earth-Sun distance coefficient, in units
ECCENTRICITY == 330
\* 23.45, the amplitude of the declination (degrees), in units
DECL_AMPLITUDE == 234500
\* 1e-10, the zenith-cosine guard: below one unit, so zero units
EPSILON == 0
\* range(24)
NUM_HOURS == 24

Zero == F(0)
Num(n) == F(n * SCALE)

\* lat = math.radians(latitude)
Lat(latitude) == Radians[latitude]

\* slope = math.radians(slope_deg)
SlopeRad(slope_deg) == Radians[slope_deg]

\* variant: the aspect taken as the azimuth, without the shift by 180 degrees
GammaNoShift(aspect_deg) == Radians[aspect_deg]

\* gamma = math.radians(aspect_deg - 180.0)
Gamma(aspect_deg) == Radians[FSub[aspect_deg, Num(180)]]

\* declination = 23.45 * math.sin(math.radians(360.0 / 365.0 * (284 + day_of_year)))
Declination(day_of_year) ==
    FMul[F(DECL_AMPLITUDE),
         Sin[Radians[FMul[FDiv[Num(360), Num(365)], FAdd[Num(284), day_of_year]]]]]

\* delta = math.radians(declination)
Delta(day_of_year) == Radians[Declination(day_of_year)]

\* day_angle = 2.0 * math.pi * (day_of_year - 1) / 365.0
DayAngle(day_of_year) ==
    FDiv[FMul[FMul[Num(2), F(PI)], FSub[day_of_year, Num(1)]], Num(365)]

\* I0_corr = I0 * (1.0 + 0.033 * math.cos(day_angle))
I0Corr(day_of_year) ==
    FMul[F(I0), FAdd[Num(1), FMul[F(ECCENTRICITY), Cos[DayAngle(day_of_year)]]]]

\* variant: the hour angle taken at the start of the hour
HourDecimalNoMidpoint(h) == Num(h)

\* hour_decimal = hour + 0.5
HourDecimal(h) == FAdd[Num(h), F(SCALE \div 2)]

\* omega = math.radians(15.0 * (hour_decimal - 12.0))
Omega(h) == Radians[FMul[Num(15), FSub[HourDecimal(h), Num(12)]]]

\* variant: omega used where its cosine belongs
SinAlphaNoCos(la, de, om) ==
    FAdd[FMul[Sin[la], Sin[de]], FMul[FMul[Cos[la], Cos[de]], om]]

\* sin_alpha = sin(lat) * sin(delta) + cos(lat) * cos(delta) * cos(omega)
SinAlpha(la, de, om) ==
    FAdd[FMul[Sin[la], Sin[de]], FMul[FMul[Cos[la], Cos[de]], Cos[om]]]

\* alpha = math.asin(sin_alpha); cos_theta_z = math.sin(alpha)
CosThetaZ(sin_alpha) == Sin[Asin[sin_alpha]]

\* cos_theta, the five terms of the incidence formula, summed left to right
CosTheta(la, sl, ga, de, om) ==
    LET t1 == FMul[FMul[Sin[de], Sin[la]], Cos[sl]]
        t2 == FMul[FMul[FMul[Sin[de], Cos[la]], Sin[sl]], Cos[ga]]
        t3 == FMul[FMul[FMul[Cos[de], Cos[la]], Cos[sl]], Cos[om]]
        t4 == FMul[FMul[FMul[FMul[Cos[de], Sin[la]], Sin[sl]], Cos[ga]], Cos[om]]
        t5 == FMul[FMul[FMul[Cos[de], Sin[sl]], Sin[ga]], Sin[om]]
    IN  FAdd[FAdd[FAdd[FSub[t1, t2], t3], t4], t5]

\* variant: the horizon check left out
NeverBelowHorizon(sin_alpha) == FALSE

\* if sin_alpha <= 0
SunBelowHorizon(sin_alpha) == FLe[sin_alpha, Zero]

\* variants: the behind-slope check left out, and the check inverted
NeverBehindSlope(cos_theta) == FALSE
BehindSlopeInverted(cos_theta) == FGt[cos_theta, Zero]

\* if cos_theta <= 0
SunBehindSlope(cos_theta) == FLe[cos_theta, Zero]

\* variant: the division not guarded
NoZenithGuard(cos_theta_z) == TRUE

\* if cos_theta_z > 1e-10
ZenithGuard(cos_theta_z) == FGt[cos_theta_z, F(EPSILON)]

\* variant: the transmittance left out
GHINoTau(i0c, cos_theta_z) == FMul[i0c, cos_theta_z]

\* GHI = I0_corr * cos_theta_z * tau
GHI(i0c, cos_theta_z) == FMul[FMul[i0c, cos_theta_z], F(TAU)]

\* tilted_irrad = GHI * cos_theta / cos_theta_z if cos_theta_z > 1e-10 else 0.0
TiltedIrrad(i0c, cos_theta_z, cos_theta) ==
    IF ZenithGuard(cos_theta_z)
    THEN FDiv[FMul[GHI(i0c, cos_theta_z), cos_theta], cos_theta_z]
    ELSE Zero

(***************************************************************************)
(* The calls. Each call slot c is one activation of                        *)
(* calculate_daily_radiation: its arguments, its locals, its position.     *)
(*   pc[c]    "idle" (no call is active), "loop" (at the head of the for   *)
(*            loop), "done" (returned hourly_rad), "raised" (left by an    *)
(*            exception)                                                   *)
(*   path[c]  the branch each finished iteration of the loop left by       *)
(***************************************************************************)
VARIABLES pc, latitude, day_of_year, slope_deg, aspect_deg,
          lat, slope, gamma, delta, I0_corr, hour, hourly_rad, path

vars == <<pc, latitude, day_of_year, slope_deg, aspect_deg,
          lat, slope, gamma, delta, I0_corr, hour, hourly_rad, path>>

args == <<latitude, day_of_year, slope_deg, aspect_deg>>
locals == <<lat, slope, gamma, delta, I0_corr>>

Slots == DOMAIN pc

InitSlots(S) ==
    /\ pc = [c \in S |-> "idle"]
    /\ latitude = [c \in S |-> Zero]
    /\ day_of_year = [c \in S |-> Zero]
    /\ slope_deg = [c \in S |-> Zero]
    /\ aspect_deg = [c \in S |-> Zero]
    /\ lat = [c \in S |-> Zero]
    /\ slope = [c \in S |-> Zero]
    /\ gamma = [c \in S |-> Zero]
    /\ delta = [c \in S |-> Zero]
    /\ I0_corr = [c \in S |-> Zero]
    /\ hour = [c \in S |-> 0]
    /\ hourly_rad = [c \in S |-> <<>>]
    /\ path = [c \in S |-> <<>>]

\* variant: the list of the caller's previous call used again
RetainedList(c) == hourly_rad[c]

\* hourly_rad = []
FreshList(c) == <<>>

\* the call and its prologue, lines 30-50; an infinite day_of_year raises
\* in math.sin or math.cos before the loop is entered
Call(c, la, d, s, a) ==
    /\ pc[c] = "idle"
    /\ latitude' = [latitude EXCEPT ![c] = la]
    /\ day_of_year' = [day_of_year EXCEPT ![c] = d]
    /\ slope_deg' = [slope_deg EXCEPT ![c] = s]
    /\ aspect_deg' = [aspect_deg EXCEPT ![c] = a]
    /\ hour' = [hour EXCEPT ![c] = 0]
    /\ path' = [path EXCEPT ![c] = <<>>]
    /\ IF IsExc(Delta(d)) \/ IsExc(I0Corr(d))
       THEN /\ pc' = [pc EXCEPT ![c] = "raised"]
            /\ lat' = [lat EXCEPT ![c] = Zero]
            /\ slope' = [slope EXCEPT ![c] = Zero]
            /\ gamma' = [gamma EXCEPT ![c] = Zero]
            /\ delta' = [delta EXCEPT ![c] = Zero]
            /\ I0_corr' = [I0_corr EXCEPT ![c] = Zero]
            /\ hourly_rad' = [hourly_rad EXCEPT ![c] = <<>>]
       ELSE /\ pc' = [pc EXCEPT ![c] = "loop"]
            /\ lat' = [lat EXCEPT ![c] = Lat(la)]
            /\ slope' = [slope EXCEPT ![c] = SlopeRad(s)]
            /\ gamma' = [gamma EXCEPT ![c] = Gamma(a)]
            /\ delta' = [delta EXCEPT ![c] = Delta(d)]
            /\ I0_corr' = [I0_corr EXCEPT ![c] = I0Corr(d)]
            /\ hourly_rad' = [hourly_rad EXCEPT ![c] = FreshList(c)]

InLoop(c) == pc[c] = "loop" /\ hour[c] < NUM_HOURS

\* hourly_rad.append(value), and on to the next hour
AppendHour(c, value, branch) ==
    /\ hourly_rad' = [hourly_rad EXCEPT ![c] = Append(@, value)]
    /\ path' = [path EXCEPT ![c] = Append(@, branch)]
    /\ hour' = [hour EXCEPT ![c] = @ + 1]
    /\ UNCHANGED <<pc, args, locals>>

\* an exception leaves the loop and the call
RaiseInLoop(c) ==
    /\ pc' = [pc EXCEPT ![c] = "raised"]
    /\ UNCHANGED <<args, locals, hour, hourly_rad, path>>

\* The values one iteration computes, each bound once where it is used:
\*   sin_alpha    line 58, from lat, delta and the hour angle omega
\*   cos_theta_z  lines 63-66
\*   cos_theta    lines 70-74
\*   tilted_irrad lines 83-91

\* the iteration goes on to lines 63-74: line 58 did not raise, the sun is up
AboveHorizon(sin_alpha) == ~IsExc(sin_alpha) /\ ~SunBelowHorizon(sin_alpha)

\* lines 58-62: the sun is below the horizon
Night(c) ==
    /\ InLoop(c)
    /\ \E sin_alpha \in {SinAlpha(lat[c], delta[c], Omega(hour[c]))} :
           /\ ~IsExc(sin_alpha)
           /\ SunBelowHorizon(sin_alpha)
    /\ AppendHour(c, Zero, "night")

\* line 58 raises: math.sin or math.cos of an infinite lat
RaiseAltitude(c) ==
    /\ InLoop(c)
    /\ IsExc(SinAlpha(lat[c], delta[c], Omega(hour[c])))
    /\ RaiseInLoop(c)

\* lines 63-79: the sun is up and behind the slope
BehindSlope(c) ==
    /\ InLoop(c)
    /\ \E sin_alpha \in {SinAlpha(lat[c], delta[c], Omega(hour[c]))} :
           /\ AboveHorizon(sin_alpha)
           /\ ~IsExc(CosThetaZ(sin_alpha))
    /\ \E cos_theta \in {CosTheta(lat[c], slope[c], gamma[c], delta[c],
                                  Omega(hour[c]))} :
           /\ ~IsExc(cos_theta)
           /\ SunBehindSlope(cos_theta)
    /\ AppendHour(c, Zero, "behind")

\* lines 63-93: the projection on the slope, or 0.0 by the zenith guard
Project(c) ==
    /\ InLoop(c)
    /\ \E sin_alpha \in {SinAlpha(lat[c], delta[c], Omega(hour[c]))} :
           /\ AboveHorizon(sin_alpha)
           /\ \E cos_theta_z \in {CosThetaZ(sin_alpha)},
                 cos_theta \in {CosTheta(lat[c], slope[c], gamma[c], delta[c],
                                         Omega(hour[c]))} :
                  /\ ~IsExc(cos_theta_z)
                  /\ ~IsExc(cos_theta)
                  /\ ~SunBehindSlope(cos_theta)
                  /\ \E tilted_irrad \in
                         {TiltedIrrad(I0_corr[c], cos_theta_z, cos_theta)} :
                         /\ ~IsExc(tilted_irrad)
                         /\ AppendHour(c, tilted_irrad,
                                       IF ZenithGuard(cos_theta_z)
                                       THEN "computed" ELSE "guard")

\* lines 63-74 raise (math.asin outside [-1, 1]; math.sin or math.cos of an
\* infinite slope or gamma), or line 89 does (a division by zero)
RaiseIncidence(c) ==
    /\ InLoop(c)
    /\ \E sin_alpha \in {SinAlpha(lat[c], delta[c], Omega(hour[c]))} :
           /\ AboveHorizon(sin_alpha)
           /\ \E cos_theta_z \in {CosThetaZ(sin_alpha)},
                 cos_theta \in {CosTheta(lat[c], slope[c], gamma[c], delta[c],
                                         Omega(hour[c]))} :
                  \/ IsExc(cos_theta_z)
                  \/ IsExc(cos_theta)
                  \/ /\ ~SunBehindSlope(cos_theta)
                     /\ IsExc(TiltedIrrad(I0_corr[c], cos_theta_z, cos_theta))
    /\ RaiseInLoop(c)

\* line 95: return hourly_rad
Return(c) ==
    /\ pc[c] = "loop"
    /\ hour[c] >= NUM_HOURS
    /\ pc' = [pc EXCEPT ![c] = "done"]
    /\ UNCHANGED <<args, locals, hour, hourly_rad, path>>

\* the caller goes on: the activation is gone, its arguments and locals with
\* it; the list it returned is the caller's
Release(c) ==
    /\ pc[c] \in {"done", "raised"}
    /\ pc' = [pc EXCEPT ![c] = "idle"]
    /\ latitude' = [latitude EXCEPT ![c] = Zero]
    /\ day_of_year' = [day_of_year EXCEPT ![c] = Zero]
    /\ slope_deg' = [slope_deg EXCEPT ![c] = Zero]
    /\ aspect_deg' = [aspect_deg EXCEPT ![c] = Zero]
    /\ lat' = [lat EXCEPT ![c] = Zero]
    /\ slope' = [slope EXCEPT ![c] = Zero]
    /\ gamma' = [gamma EXCEPT ![c] = Zero]
    /\ delta' = [delta EXCEPT ![c] = Zero]
    /\ I0_corr' = [I0_corr EXCEPT ![c] = Zero]
    /\ hour' = [hour EXCEPT ![c] = 0]
    /\ path' = [path EXCEPT ![c] = <<>>]
    /\ UNCHANGED hourly_rad

\* the arguments the calls are made with, in degrees and days: in range,
\* out of range, NaN and infinite
Latitudes == {Num(48), Num(80), Num(-100), NaN, Inf(1)}
Days == {Num(1), Num(172), Num(400), NaN, Inf(1)}
SlopeDegs == {Num(0), Num(30), Num(90), Num(120), NaN, Inf(1)}
AspectDegs == {Num(0), Num(90), Num(180), Num(400), NaN, Inf(-1)}

\* one caller, calling again and again
Init == InitSlots({1})

Next ==
    \E c \in {1} :
        \/ \E la \in Latitudes, d \in Days, s \in SlopeDegs, a \in AspectDegs :
               Call(c, la, d, s, a)
        \/ Night(c)
        \/ RaiseAltitude(c)
        \/ BehindSlope(c)
        \/ Project(c)
        \/ RaiseIncidence(c)
        \/ Return(c)
        \/ Release(c)

Spec == Init /\ [][Next]_vars

(***************************************************************************)
(* compare_slopes.main: the scenario, and two calls side by side           *)
(***************************************************************************)

\* latitude = 48.0, day_of_year = 172
MainLatitude == Num(48)
MainDay == Num(172)
\* slope_a = 30.0, aspect_a = 180.0: south-facing
SlopeA == Num(30)
AspectA == Num(180)
\* slope_b = 30.0, aspect_b = 0.0: north-facing
SlopeB == Num(30)
AspectB == Num(0)

\* sum(rad): 0 + rad[0] + ... + rad[23], left to right
Sum(rad) ==
    LET partial[n \in 0..Len(rad)] ==
            IF n = 0 THEN Zero ELSE FAdd[partial[n - 1], rad[n]]
    IN  partial[Len(rad)]

\* the arguments of the concurrent calls: main's, and an infinite latitude or slope
ConcLatitudes == {MainLatitude, Inf(1)}
ConcDays == {MainDay}
ConcSlopeDegs == {SlopeA, SlopeB, Inf(1)}
ConcAspectDegs == {AspectA, AspectB}

\* two callers (threads), their calls interleaved at every step
InitConc == InitSlots({1, 2})

NextConc ==
    \E c \in {1, 2} :
        \/ \E la \in ConcLatitudes, d \in ConcDays, s \in ConcSlopeDegs,
              a \in ConcAspectDegs :
               Call(c, la, d, s, a)
        \/ Night(c)
        \/ RaiseAltitude(c)
        \/ BehindSlope(c)
        \/ Project(c)
        \/ RaiseIncidence(c)
        \/ Return(c)
        \/ Release(c)

SpecConc == InitConc /\ [][NextConc]_vars

(***************************************************************************)
(* The properties                                                          *)
(***************************************************************************)

Hours == 0..(NUM_HOURS - 1)

\* what call c computes for hour h, from its locals
SinAlphaAt(c, h) == SinAlpha(lat[c], delta[c], Omega(h))
CosThetaZAt(c, h) == CosThetaZ(SinAlphaAt(c, h))
CosThetaAt(c, h) == CosTheta(lat[c], slope[c], gamma[c], delta[c], Omega(h))

\* the value of hour h as the loop body defines it, lines 54-93
HourValue(c, h) ==
    IF SunBelowHorizon(SinAlphaAt(c, h)) THEN Zero
    ELSE IF SunBehindSlope(CosThetaAt(c, h)) THEN Zero
    ELSE TiltedIrrad(I0_corr[c], CosThetaZAt(c, h), CosThetaAt(c, h))

Done(c) == pc[c] = "done"
Branches(c) == {path[c][i] : i \in 1..Len(path[c])}

FiniteArgs(c) ==
    /\ IsFin(latitude[c])
    /\ IsFin(day_of_year[c])
    /\ IsFin(slope_deg[c])
    /\ IsFin(aspect_deg[c])

\* latitude finite, day_of_year in 1..366, slope in 0..90, aspect in 0..360
ValidArgs(c) ==
    /\ FiniteArgs(c)
    /\ FLe[Num(1), day_of_year[c]] /\ FLe[day_of_year[c], Num(366)]
    /\ FLe[Zero, slope_deg[c]] /\ FLe[slope_deg[c], Num(90)]
    /\ FLe[Zero, aspect_deg[c]] /\ FLe[aspect_deg[c], Num(360)]

\* C1: the loop appends exactly one value per hour, in hour order: at the
\* head of the loop the list holds one value for each of the hours 0..hour-1,
\* and the returned list has exactly 24 elements, the element at index h being
\* the value of hour h.
C1_TwentyFourInHourOrder ==
    \A c \in Slots :
        /\ pc[c] = "loop" =>
               /\ hour[c] \in 0..NUM_HOURS
               /\ Len(hourly_rad[c]) = hour[c]
               /\ Len(path[c]) = hour[c]
        /\ Done(c) =>
               /\ Len(hourly_rad[c]) = NUM_HOURS
               /\ \A h \in Hours : hourly_rad[c][h + 1] = HourValue(c, h)

\* a returned list whose hours left the loop by the night branch, the
\* behind-slope branch and the computed branch
C1_Witness ==
    \E c \in Slots :
        /\ Done(c)
        /\ {"night", "behind", "computed"} \subseteq Branches(c)

\* C2: for valid inputs every value of the list is a finite number >= 0, and
\* a returned non-zero value was computed in an hour with sin(altitude) > 0,
\* cos(theta) > 0 and cos(zenith) > 1e-10, with I0_corr positive.
C2_NonNegative ==
    \A c \in Slots :
        (pc[c] \in {"loop", "done"} /\ ValidArgs(c)) =>
            /\ \A i \in 1..Len(hourly_rad[c]) :
                   IsFin(hourly_rad[c][i]) /\ hourly_rad[c][i].v >= 0
            /\ Done(c) =>
                   \A h \in Hours :
                       hourly_rad[c][h + 1] /= Zero =>
                           /\ path[c][h + 1] = "computed"
                           /\ FGt[SinAlphaAt(c, h), Zero]
                           /\ FGt[CosThetaAt(c, h), Zero]
                           /\ FGt[CosThetaZAt(c, h), F(EPSILON)]
                           /\ FGt[I0_corr[c], Zero]

\* a call with valid arguments returned with a positive value and with an
\* hour zeroed behind the slope
C2_Witness ==
    \E c \in Slots :
        /\ Done(c)
        /\ ValidArgs(c)
        /\ "behind" \in Branches(c)
        /\ \E i \in 1..NUM_HOURS : hourly_rad[c][i].v > 0

\* C3: in a returned list every hour whose sin(altitude), taken at the hour
\* midpoint, is <= 0 has the value 0, and left the loop by the night branch,
\* before any incidence angle or irradiance was computed.
C3_NightIsZero ==
    \A c \in Slots :
        Done(c) =>
            \A h \in Hours :
                FLe[SinAlphaAt(c, h), Zero] =>
                    /\ hourly_rad[c][h + 1] = Zero
                    /\ path[c][h + 1] = "night"

\* a returned list with night hours and computed hours
C3_Witness ==
    \E c \in Slots :
        /\ Done(c)
        /\ FiniteArgs(c)
        /\ {"night", "computed"} \subseteq Branches(c)

\* C4: in a returned list every hour with sin(altitude) > 0 and
\* cos(theta) <= 0 has the value 0, by the behind-slope branch; that branch
\* is taken only with the sun above the horizon; and either condition alone
\* (sin(altitude) <= 0, cos(theta) <= 0) zeroes the hour.
C4_BehindSlopeIsZero ==
    \A c \in Slots :
        Done(c) =>
            \A h \in Hours :
                /\ (FGt[SinAlphaAt(c, h), Zero] /\ ~IsExc(CosThetaAt(c, h))
                        /\ FLe[CosThetaAt(c, h), Zero]) =>
                       /\ hourly_rad[c][h + 1] = Zero
                       /\ path[c][h + 1] = "behind"
                /\ path[c][h + 1] = "behind" => FGt[SinAlphaAt(c, h), Zero]
                /\ (FLe[SinAlphaAt(c, h), Zero]
                        \/ (~IsExc(CosThetaAt(c, h)) /\ FLe[CosThetaAt(c, h), Zero])) =>
                       hourly_rad[c][h + 1] = Zero

\* a returned list with an hour behind the slope, the sun being up
C4_Witness ==
    \E c \in Slots :
        /\ Done(c)
        /\ \E h \in Hours :
               /\ path[c][h + 1] = "behind"
               /\ FGt[SinAlphaAt(c, h), Zero]

\* the two calls of main have returned: c1 the south-facing, c2 the north-facing
MainScenario(c1, c2) ==
    /\ Done(c1) /\ Done(c2)
    /\ latitude[c1] = MainLatitude /\ latitude[c2] = MainLatitude
    /\ day_of_year[c1] = MainDay /\ day_of_year[c2] = MainDay
    /\ slope_deg[c1] = SlopeA /\ aspect_deg[c1] = AspectA
    /\ slope_deg[c2] = SlopeB /\ aspect_deg[c2] = AspectB

\* C5: for latitude 48, day 172 and slope 30 the sum of the 24 values of the
\* south-facing surface (aspect 180) is strictly positive and strictly
\* greater than the sum of the north-facing surface (aspect 0); both sums
\* are finite and non-negative.
C5_SouthExceedsNorth ==
    \A c1 \in Slots, c2 \in Slots :
        MainScenario(c1, c2) =>
            /\ IsFin(Sum(hourly_rad[c1])) /\ IsFin(Sum(hourly_rad[c2]))
            /\ Sum(hourly_rad[c2]).v >= 0
            /\ Sum(hourly_rad[c1]).v > 0
            /\ Sum(hourly_rad[c1]).v > Sum(hourly_rad[c2]).v

\* both calls of main have returned, each with a positive sum
C5_Witness ==
    \E c1 \in Slots, c2 \in Slots :
        /\ MainScenario(c1, c2)
        /\ Sum(hourly_rad[c2]).v > 0

\* C6: for a flat surface (slope 0) and finite latitude, day and aspect the
\* returned list is symmetric about 12:00: the value at index h is the value
\* at index 23 - h, for every h in 0..11.
C6_FlatSymmetry ==
    \A c \in Slots :
        (Done(c) /\ FiniteArgs(c) /\ slope_deg[c] = Zero) =>
            \A h \in 0..11 : hourly_rad[c][h + 1] = hourly_rad[c][NUM_HOURS - h]

\* a flat surface with an aspect that is neither north nor south returned a
\* list with positive morning values and with zeros
C6_Witness ==
    \E c \in Slots :
        /\ Done(c) /\ FiniteArgs(c) /\ slope_deg[c] = Zero
        /\ aspect_deg[c] = Num(90)
        /\ \E h \in 0..11 : hourly_rad[c][h + 1].v > 0
        /\ \E h \in 0..11 : hourly_rad[c][h + 1] = Zero

NoInfiniteArg(c) ==
    ~IsInf(latitude[c]) /\ ~IsInf(day_of_year[c])
        /\ ~IsInf(slope_deg[c]) /\ ~IsInf(aspect_deg[c])

\* C7 as stated: no call raises an error, whatever numeric input it is given.
C7_NoErrorForAnyInput == \A c \in Slots : pc[c] /= "raised"

\* C7, amended: a call none of whose arguments is infinite raises no error,
\* its arguments out of range or not; each of its hours ends in a computed
\* value or in an explicit zero, and it goes through at most 24 iterations
\* before it returns the complete list.
C7_NoErrorWithoutInfinity ==
    \A c \in Slots :
        NoInfiniteArg(c) =>
            /\ pc[c] /= "raised"
            /\ hour[c] <= NUM_HOURS
            /\ pc[c] \in {"loop", "done"} =>
                   \A i \in 1..Len(hourly_rad[c]) :
                       \/ path[c][i] = "computed"
                       \/ path[c][i] \in {"night", "behind", "guard"}
                              /\ hourly_rad[c][i] = Zero
            /\ Done(c) => Len(hourly_rad[c]) = NUM_HOURS

\* a call with every argument finite and out of range has returned
C7_Witness ==
    \E c \in Slots :
        /\ Done(c)
        /\ latitude[c] = Num(-100) /\ day_of_year[c] = Num(400)
        /\ slope_deg[c] = Num(120) /\ aspect_deg[c] = Num(400)

SameArgs(c1, c2) ==
    /\ latitude[c1] = latitude[c2]
    /\ day_of_year[c1] = day_of_year[c2]
    /\ slope_deg[c1] = slope_deg[c2]
    /\ aspect_deg[c1] = aspect_deg[c2]

\* C8: two calls with identical arguments that have gone through the same
\* number of iterations hold identical day-level quantities and identical
\* lists, whatever calls the two callers made before and however their steps
\* interleave; so two calls with identical arguments return identical lists.
C8_Deterministic ==
    \A c1 \in Slots, c2 \in Slots :
        (/\ pc[c1] \in {"loop", "done"}
         /\ pc[c2] \in {"loop", "done"}
         /\ SameArgs(c1, c2)
         /\ hour[c1] = hour[c2]) =>
            /\ hourly_rad[c1] = hourly_rad[c2]
            /\ <<lat[c1], slope[c1], gamma[c1], delta[c1], I0_corr[c1]>>
                   = <<lat[c2], slope[c2], gamma[c2], delta[c2], I0_corr[c2]>>

\* two callers hold the lists of two calls with identical arguments, with
\* positive values in them
C8_Witness ==
    \E c1 \in Slots, c2 \in Slots :
        /\ c1 /= c2
        /\ Done(c1) /\ Done(c2)
        /\ SameArgs(c1, c2)
        /\ \E i \in 1..NUM_HOURS : hourly_rad[c1][i].v > 0

\* C9 as stated: no hourly value is ever infinite or NaN.
C9_NeverInfiniteOrNaN ==
    \A c \in Slots :
        pc[c] \in {"loop", "done"} =>
            \A i \in 1..Len(hourly_rad[c]) : IsFin(hourly_rad[c][i])

\* C9, amended: in an hour that passed the above-horizon and the
\* behind-slope checks the division is performed only when
\* cos(zenith) > 1e-10, and the value is 0 otherwise; no value is infinite,
\* and none is NaN unless slope or aspect is NaN.
C9_GuardedDivision ==
    \A c \in Slots :
        Done(c) =>
            \A h \in Hours :
                /\ path[c][h + 1] = "computed" =>
                       /\ FGt[CosThetaZAt(c, h), F(EPSILON)]
                       /\ hourly_rad[c][h + 1] =
                              FDiv[FMul[GHI(I0_corr[c], CosThetaZAt(c, h)),
                                        CosThetaAt(c, h)],
                                   CosThetaZAt(c, h)]
                /\ path[c][h + 1] = "guard" =>
                       /\ ~FGt[CosThetaZAt(c, h), F(EPSILON)]
                       /\ hourly_rad[c][h + 1] = Zero
                /\ ~IsInf(hourly_rad[c][h + 1])
                /\ (~IsNaN(slope_deg[c]) /\ ~IsNaN(aspect_deg[c])) =>
                       IsFin(hourly_rad[c][h + 1])

\* a returned list with hours zeroed by the guard
C9_Witness ==
    \E c \in Slots :
        /\ Done(c)
        /\ "guard" \in Branches(c)

\* 1367 * 1.033 * 0.7, the largest I0_corr * tau of the year
MaxIrradiance == FMul[FMul[F(I0), FAdd[Num(1), F(ECCENTRICITY)]], F(TAU)]

\* C10: for finite inputs every returned value is at most I0_corr * tau, and
\* so at most 1367 * 1.033 * 0.7; a non-zero value was computed with
\* 0 < cos(theta) <= 1 and is I0_corr * tau * cos(theta), the zenith cosine
\* cancelled, to within the rounding of the arithmetic (0.01 W/m2).
C10_UpperBound ==
    \A c \in Slots :
        (Done(c) /\ FiniteArgs(c)) =>
            \A h \in Hours :
                /\ FLe[hourly_rad[c][h + 1], FMul[I0_corr[c], F(TAU)]]
                /\ FLe[hourly_rad[c][h + 1], MaxIrradiance]
                /\ hourly_rad[c][h + 1] /= Zero =>
                       /\ FGt[CosThetaAt(c, h), Zero]
                       /\ FLe[CosThetaAt(c, h), Num(1)]
                       /\ Abs(hourly_rad[c][h + 1].v
                              - FMul[FMul[I0_corr[c], F(TAU)], CosThetaAt(c, h)].v)
                              <= 100

\* a returned value close to the bound: above 95 % of I0_corr * tau
C10_Witness ==
    \E c \in Slots :
        /\ Done(c) /\ FiniteArgs(c)
        /\ \E i \in 1..NUM_HOURS :
               FGt[hourly_rad[c][i], FMul[FMul[I0_corr[c], F(TAU)], F(9500)]]

====
